---------------------------- MODULE Spec2Model ----------------------------
(***************************************************************************)
(* A model of ec2-auto-ami-manager.py: the scheduled job that creates,     *)
(* removes and copies EC2 images according to a tag-encoded policy.        *)
(*                                                                         *)
(* Strings are sequences of one-character strings, so that split, strip,   *)
(* lower, isdigit, int, str(date) and strptime are computed and not        *)
(* assumed.  Dates are proleptic Gregorian ordinals, as in Python's        *)
(* datetime (0001-01-01 is day 1).                                         *)
(***************************************************************************)
EXTENDS Integers, Sequences, FiniteSets, TLC

(***************************************************************************)
(* Python string primitives                                                *)
(***************************************************************************)

\* The character U+00B2: str.isdigit() accepts it, int() does not.
SuperscriptTwo == "sup2"

AsciiDigits == <<"0", "1", "2", "3", "4", "5", "6", "7", "8", "9">>

UpperLetters == <<"A", "B", "C", "D", "E", "F", "G", "H", "I", "J", "K", "L", "M",
                  "N", "O", "P", "Q", "R", "S", "T", "U", "V", "W", "X", "Y", "Z">>

LowerLetters == <<"a", "b", "c", "d", "e", "f", "g", "h", "i", "j", "k", "l", "m",
                  "n", "o", "p", "q", "r", "s", "t", "u", "v", "w", "x", "y", "z">>

Range(s) == {s[i] : i \in DOMAIN s}

IndexOf(s, c) == CHOOSE i \in DOMAIN s : s[i] = c

DigitSet == Range(AsciiDigits)

UpperSet == Range(UpperLetters)

ToLower == [c \in UpperSet |-> LowerLetters[IndexOf(UpperLetters, c)]]

\* str.lower() on one character
LowerChar(c) == IF c \in UpperSet THEN ToLower[c] ELSE c

\* str.lower()
Lower(s) == [i \in DOMAIN s |-> LowerChar(s[i])]

\* str.strip(): from the first to the last character that is not a space
Strip(s) ==
    LET kept == {i \in DOMAIN s : s[i] # " "}
    IN IF kept = {} THEN <<>>
       ELSE SubSeq(s, CHOOSE i \in kept : \A j \in kept : i <= j,
                      CHOOSE i \in kept : \A j \in kept : j <= i)

\* str.split(sep): always at least one part; n separators give n + 1 parts
Split(s, sep) ==
    LET seps == {i \in DOMAIN s : s[i] = sep}
        n    == Cardinality(seps)
        at(k) == IF k = 0 THEN 0
                 ELSE IF k = n + 1 THEN Len(s) + 1
                 ELSE CHOOSE i \in seps : Cardinality({j \in seps : j < i}) = k - 1
    IN [k \in 1..(n + 1) |-> SubSeq(s, at(k - 1) + 1, at(k) - 1)]

\* s[:n]
Prefix(s, n) == SubSeq(s, 1, IF Len(s) < n THEN Len(s) ELSE n)

\* str.isdigit(): non-empty and every character has the Unicode digit property
IsDigit(s) == s # <<>> /\ \A i \in DOMAIN s : s[i] \in DigitSet \/ s[i] = SuperscriptTwo

DigitValues == [c \in DigitSet |-> IndexOf(AsciiDigits, c) - 1]

DigitValue(c) == DigitValues[c]

RECURSIVE DecimalValue(_)
DecimalValue(s) == IF s = <<>> THEN 0 ELSE 10 * DecimalValue(SubSeq(s, 1, Len(s) - 1)) + DigitValue(s[Len(s)])

\* The result of a call that raised instead of returning
ValueError == -1

\* int(s): surrounding whitespace is dropped; anything but ASCII decimal digits raises
\* (signs and underscores never reach int() here: every call is guarded by isdigit()).
PyInt(s) ==
    LET t == Strip(s)
    IN IF t # <<>> /\ \A i \in DOMAIN t : t[i] \in DigitSet
       THEN DecimalValue(t) ELSE ValueError

\* Python's None, and str(None)
None == <<"<None>">>

Str(x) == IF x = None THEN <<"N", "o", "n", "e">> ELSE x

\* "%0<width>d" % n
RECURSIVE ZeroPad(_, _)
ZeroPad(n, width) ==
    IF width = 0 THEN <<>>
    ELSE Append(ZeroPad(n \div 10, width - 1), AsciiDigits[(n % 10) + 1])

(***************************************************************************)
(* Python datetime: ordinals, calendar fields, str(date), strftime,        *)
(* strptime                                                                *)
(***************************************************************************)

IsLeap(y) == y % 4 = 0 /\ (y % 100 # 0 \/ y % 400 = 0)

DaysInMonth(y, m) ==
    IF m = 2 THEN (IF IsLeap(y) THEN 29 ELSE 28)
    ELSE IF m \in {4, 6, 9, 11} THEN 30 ELSE 31

\* Days of a common year before the first of each month
DaysBeforeMonthCommon == <<0, 31, 59, 90, 120, 151, 181, 212, 243, 273, 304, 334>>

DaysBeforeMonth(y, m) == DaysBeforeMonthCommon[m] + (IF m > 2 /\ IsLeap(y) THEN 1 ELSE 0)

DaysBeforeYear(y) == (y - 1) * 365 + (y - 1) \div 4 - (y - 1) \div 100 + (y - 1) \div 400

\* date(y, m, d).toordinal()
Ymd2Ord(y, m, d) == DaysBeforeYear(y) + DaysBeforeMonth(y, m) + d

\* date.fromordinal(n): the year, then the month, then the day
OrdYear(n) ==
    LET n0   == n - 1
        n400 == n0 \div 146097
        r400 == n0 % 146097
        n100 == r400 \div 36524
        r100 == r400 % 36524
        n4   == r100 \div 1461
        r4   == r100 % 1461
        n1   == r4 \div 365
        y    == n400 * 400 + 1 + n100 * 100 + n4 * 4 + n1
    IN IF n1 = 4 \/ n100 = 4 THEN y - 1 ELSE y

OrdMonth(n) ==
    LET y == OrdYear(n)
        k == n - DaysBeforeYear(y)
    IN CHOOSE m \in 1..12 : DaysBeforeMonth(y, m) < k /\ k <= DaysBeforeMonth(y, m) + DaysInMonth(y, m)

OrdDay(n) == LET y == OrdYear(n) IN n - DaysBeforeYear(y) - DaysBeforeMonth(y, OrdMonth(n))

\* str(date) and strftime('%Y-%m-%d'): zero-padded ISO form
DateStr(n) == ZeroPad(OrdYear(n), 4) \o <<"-">> \o ZeroPad(OrdMonth(n), 2) \o <<"-">> \o ZeroPad(OrdDay(n), 2)

\* strftime('%a') in the en_US locale, Monday first
WeekdayNames == << <<"M", "o", "n">>, <<"T", "u", "e">>, <<"W", "e", "d">>, <<"T", "h", "u">>,
                   <<"F", "r", "i">>, <<"S", "a", "t">>, <<"S", "u", "n">> >>

\* date.weekday(): Monday is 0
Weekday(n) == (n + 6) % 7

\* A time of day in seconds since midnight
HourOf(sec) == sec \div 3600
MinuteOf(sec) == (sec % 3600) \div 60
SecondOf(sec) == sec % 60

AllAsciiDigits(s) == s # <<>> /\ \A i \in DOMAIN s : s[i] \in DigitSet

\* datetime.strptime(s, '%Y-%m-%d'): the ordinal of the date, or ValueError
Strptime(s) ==
    LET p == Split(s, "-")
    IN IF Len(p) # 3 THEN ValueError
       ELSE IF ~(Len(p[1]) = 4 /\ AllAsciiDigits(p[1])) THEN ValueError
       ELSE IF ~(Len(p[2]) \in {1, 2} /\ AllAsciiDigits(p[2])) THEN ValueError
       ELSE IF ~(Len(p[3]) \in {1, 2} /\ AllAsciiDigits(p[3])) THEN ValueError
       ELSE LET y == DecimalValue(p[1])
                m == DecimalValue(p[2])
                d == DecimalValue(p[3])
            IN IF y >= 1 /\ m \in 1..12 /\ d >= 1 /\ d <= DaysInMonth(y, m)
               THEN Ymd2Ord(y, m, d) ELSE ValueError


(***************************************************************************)
(* String literals of the program                                          *)
(***************************************************************************)
S_enable == <<"e", "n", "a", "b", "l", "e">>
S_type == <<"t", "y", "p", "e">>
S_when == <<"w", "h", "e", "n">>
S_retention == <<"r", "e", "t", "e", "n", "t", "i", "o", "n">>
S_copyto == <<"c", "o", "p", "y", "t", "o">>
S_copytags == <<"c", "o", "p", "y", "t", "a", "g", "s">>
S_reboot == <<"r", "e", "b", "o", "o", "t">>
S_yes == <<"y", "e", "s">>
S_true == <<"t", "r", "u", "e">>
S_no == <<"n", "o">>
S_always == <<"a", "l", "w", "a", "y", "s">>
S_daily == <<"d", "a", "i", "l", "y">>
S_weekly == <<"w", "e", "e", "k", "l", "y">>
S_monthly == <<"m", "o", "n", "t", "h", "l", "y">>

\* The regions of self.aws_regions, in the order lambda_handler visits them
UsEast1 == <<"u", "s", "-", "e", "a", "s", "t", "-", "1">>

UsWest2 == <<"u", "s", "-", "w", "e", "s", "t", "-", "2">>

aws_regions == <<UsEast1, UsWest2>>

\* int(os.environ.get('default_retention_days', 2))
default_retention_days == 2

(***************************************************************************)
(* The instances of the account and the policy tags they may carry         *)
(***************************************************************************)
Instance1 == <<"i", "-", "1">>

Instance2 == <<"i", "-", "2">>

\* "enable=yes;type=daily;retention=7;copyto=us-west-2"
TagExample == <<"e", "n", "a", "b", "l", "e", "=", "y", "e", "s", ";", "t", "y", "p", "e", "=", "d", "a", "i", "l", "y", ";", "r", "e", "t", "e", "n", "t", "i", "o", "n", "=", "7", ";", "c", "o", "p", "y", "t", "o", "=", "u", "s", "-", "w", "e", "s", "t", "-", "2">>

\* "enable=yes;type"
TagMalformed == <<"e", "n", "a", "b", "l", "e", "=", "y", "e", "s", ";", "t", "y", "p", "e">>

\* "type=daily;retention=7"
TagNoEnable == <<"t", "y", "p", "e", "=", "d", "a", "i", "l", "y", ";", "r", "e", "t", "e", "n", "t", "i", "o", "n", "=", "7">>

\* "enable=no;type=always"
TagDisabledAlways == <<"e", "n", "a", "b", "l", "e", "=", "n", "o", ";", "t", "y", "p", "e", "=", "a", "l", "w", "a", "y", "s">>

\* "enable=yes;type=weekly;when=Monday, wed"
TagWeekly == <<"e", "n", "a", "b", "l", "e", "=", "y", "e", "s", ";", "t", "y", "p", "e", "=", "w", "e", "e", "k", "l", "y", ";", "w", "h", "e", "n", "=", "M", "o", "n", "d", "a", "y", ",", " ", "w", "e", "d">>

\* "enable=yes;type=weekly"
TagWeeklyNoWhen == <<"e", "n", "a", "b", "l", "e", "=", "y", "e", "s", ";", "t", "y", "p", "e", "=", "w", "e", "e", "k", "l", "y">>

\* "enable=yes;type=weekly;when="
TagWeeklyEmptyWhen == <<"e", "n", "a", "b", "l", "e", "=", "y", "e", "s", ";", "t", "y", "p", "e", "=", "w", "e", "e", "k", "l", "y", ";", "w", "h", "e", "n", "=">>

\* "enable=yes;type=monthly;when=1,32,x"
TagMonthly == <<"e", "n", "a", "b", "l", "e", "=", "y", "e", "s", ";", "t", "y", "p", "e", "=", "m", "o", "n", "t", "h", "l", "y", ";", "w", "h", "e", "n", "=", "1", ",", "3", "2", ",", "x">>

\* "enable=yes;type=monthly;when=2, 15"
TagMonthlyOther == <<"e", "n", "a", "b", "l", "e", "=", "y", "e", "s", ";", "t", "y", "p", "e", "=", "m", "o", "n", "t", "h", "l", "y", ";", "w", "h", "e", "n", "=", "2", ",", " ", "1", "5">>

\* "enable=yes;type=monthly;when=1,<U+00B2>"
TagMonthlySuperscript == <<"e", "n", "a", "b", "l", "e", "=", "y", "e", "s", ";", "t", "y", "p", "e", "=", "m", "o", "n", "t", "h", "l", "y", ";", "w", "h", "e", "n", "=", "1", ",", SuperscriptTwo>>

\* "enable=yes;type=monthly"
TagMonthlyNoWhen == <<"e", "n", "a", "b", "l", "e", "=", "y", "e", "s", ";", "t", "y", "p", "e", "=", "m", "o", "n", "t", "h", "l", "y">>

\* "enable=yes;retention=0"
TagRetentionZero == <<"e", "n", "a", "b", "l", "e", "=", "y", "e", "s", ";", "r", "e", "t", "e", "n", "t", "i", "o", "n", "=", "0">>

\* "enable=yes;retention=<U+00B2>"
TagRetentionSuperscript == <<"e", "n", "a", "b", "l", "e", "=", "y", "e", "s", ";", "r", "e", "t", "e", "n", "t", "i", "o", "n", "=", SuperscriptTwo>>

\* "enable=true;type=always;copytags=yes"
TagAlways == <<"e", "n", "a", "b", "l", "e", "=", "t", "r", "u", "e", ";", "t", "y", "p", "e", "=", "a", "l", "w", "a", "y", "s", ";", "c", "o", "p", "y", "t", "a", "g", "s", "=", "y", "e", "s">>

\* "enable=yes;copyto=us-west-2,us-west-2"
TagCopyTwice == <<"e", "n", "a", "b", "l", "e", "=", "y", "e", "s", ";", "c", "o", "p", "y", "t", "o", "=", "u", "s", "-", "w", "e", "s", "t", "-", "2", ",", "u", "s", "-", "w", "e", "s", "t", "-", "2">>

\* A tag that has the key and an empty value
TagEmpty == <<>>

\* " Enable = YES ; Retention = 1 ; CopyTags = true ; CopyTo = us-west-2, eu-bogus "
TagSpaced == <<" ", "E", "n", "a", "b", "l", "e", " ", "=", " ", "Y", "E", "S", " ", ";", " ", "R", "e", "t", "e", "n", "t", "i", "o", "n", " ", "=", " ", "1", " ", ";", " ", "C", "o", "p", "y", "T", "a", "g", "s", " ", "=", " ", "t", "r", "u", "e", " ", ";", " ", "C", "o", "p", "y", "T", "o", " ", "=", " ", "u", "s", "-", "w", "e", "s", "t", "-", "2", ",", " ", "e", "u", "-", "b", "o", "g", "u", "s", " ">>

PolicyTags == {TagExample, TagMalformed, TagNoEnable, TagDisabledAlways, TagWeekly, TagWeeklyNoWhen, TagWeeklyEmptyWhen, TagMonthly, TagMonthlyOther, TagMonthlySuperscript, TagMonthlyNoWhen, TagRetentionZero, TagRetentionSuperscript, TagAlways, TagCopyTwice, TagSpaced, TagEmpty}

(***************************************************************************)
(* create_images: decoding the policy tag of an instance                   *)
(***************************************************************************)

\* [option.split('=') for option in tag['Value'].split(';')]
Options(value) == LET segs == Split(value, ";") IN [i \in DOMAIN segs |-> Split(segs[i], "=")]

\* "for k, v in ..." raises ValueError unless every option splits in exactly two
\* parts
unpack_raises(value) == LET opts == Options(value) IN \E i \in DOMAIN opts : Len(opts[i]) # 2

\* The value False, kept apart from every string
PyFalse == <<"<False>">>

\* parse_error = False, then parse_error = tag['Value'] in the except clause
parse_error(value) == IF unpack_raises(value) THEN value ELSE PyFalse

\* "if parse_error:": False and the empty string are falsy
Truthy(x) == x # PyFalse /\ x # <<>>

\* The dict comprehension: keys and values lowered and stripped, a later option
\* replacing an earlier one of the same key; {'enable': 'no'} after a ValueError.
config(value) ==
    IF unpack_raises(value) THEN [k \in {S_enable} |-> S_no]
    ELSE LET opts == Options(value)
             key  == [i \in DOMAIN opts |-> Strip(Lower(opts[i][1]))]
             lastOf(k) == CHOOSE i \in DOMAIN opts : key[i] = k /\ \A j \in DOMAIN opts : key[j] = k => j <= i
         IN [k \in Range(key) |-> Strip(Lower(opts[lastOf(k)][2]))]

\* dict.get(key) and dict.get(key, default)
GetOr(c, k, default) == IF k \in DOMAIN c THEN c[k] ELSE default

Get(c, k) == GetOr(c, k, None)

backup_copy_to(c) == Get(c, S_copyto)

\* int(config.get('retention')) if config.get('retention', '').strip().isdigit()
\* else self.default_retention_days; ValueError when int() raises
backup_retention(c) ==
    IF IsDigit(Strip(GetOr(c, S_retention, <<>>))) THEN PyInt(c[S_retention])
    ELSE default_retention_days

backup_enable(c) == Get(c, S_enable) \in {S_yes, S_true}

backup_type(c) ==
    IF Get(c, S_type) \in {S_always, S_daily, S_weekly, S_monthly} THEN Get(c, S_type) ELSE None

backup_copy_tags(c) == Get(c, S_copytags) \in {S_yes, S_true}

backup_no_reboot(c) == ~(Get(c, S_reboot) \in {S_yes, S_true})

\* datetime.date.strftime(today_date, '%a').lower()
today_weekday(day) == Lower(WeekdayNames[Weekday(day) + 1])

\* int(datetime.date.strftime(today_date, '%d'))
today_day(day) == PyInt(ZeroPad(OrdDay(day), 2))

\* datetime.datetime.now().strftime('%Y-%M-%d_%H-%M-%S'): %M is the minute
today_datetime(day, sec) ==
    ZeroPad(OrdYear(day), 4) \o <<"-">> \o ZeroPad(MinuteOf(sec), 2) \o <<"-">> \o ZeroPad(OrdDay(day), 2)
    \o <<"_">> \o ZeroPad(HourOf(sec), 2) \o <<"-">> \o ZeroPad(MinuteOf(sec), 2) \o <<"-">> \o ZeroPad(SecondOf(sec), 2)

name_qualifier(type, day, sec) == IF type = S_always THEN Str(today_datetime(day, sec)) ELSE Str(DateStr(day))

\* '{} - {}'.format(instance.instance_id, name_qualifier)
image_name(instance_id, qualifier) == instance_id \o <<" ", "-", " ">> \o qualifier

\* A slip: the retention of the tag is not used
expire_date_default_only(day, retention) == Str(DateStr(day + default_retention_days))

\* str(today_date + datetime.timedelta(days=backup_retention))
expire_date(day, retention) == Str(DateStr(day + retention))

\* expire_date + ';' + str(backup_copy_to)
expiry_tag(expire, copy_to) == expire \o <<";">> \o Str(copy_to)

\* [wd.strip().lower()[:3] for wd in config.get('when').split(',')]
weekly_when(c) == {Prefix(Lower(Strip(wd)), 3) : wd \in Range(Split(c[S_when], ","))}

\* The filter of the monthly list comprehension
monthly_valid(d) == IsDigit(Strip(d)) /\ PyInt(d) \in 1..31

\* int(d) raises ValueError for an entry that isdigit() accepts and int() does not
monthly_raises(c) == \E d \in Range(Split(c[S_when], ",")) : IsDigit(Strip(d)) /\ PyInt(d) = ValueError

\* [int(d) for d in config.get('when').split(',') if d.strip().isdigit() and int(d) in range(1, 32)]
monthly_when(c) == {PyInt(d) : d \in {e \in Range(Split(c[S_when], ",")) : monthly_valid(e)}}

\* What one iteration of the instance loop decides before it calls the provider:
\*   "raised"      an exception no handler catches (lines 131, 169, 174-175)
\*   "parse_error" / "disabled"   backup_enable is False (lines 213-224)
\*   "skipped"     weekly or monthly, not today (lines 226-231)
\*   "backup"      backup_this_instance is True (line 178)
Evaluate(value, day) ==
    LET c == config(value)
    IN IF backup_retention(c) = ValueError THEN "raised"
       ELSE IF ~backup_enable(c) THEN (IF Truthy(parse_error(value)) THEN "parse_error" ELSE "disabled")
       ELSE IF backup_type(c) = S_weekly
            THEN (IF Get(c, S_when) = None THEN "raised"
                  ELSE IF today_weekday(day) \in weekly_when(c) THEN "backup" ELSE "skipped")
       ELSE IF backup_type(c) = S_monthly
            THEN (IF Get(c, S_when) = None THEN "raised"
                  ELSE IF monthly_raises(c) THEN "raised"
                  ELSE IF today_day(day) \in monthly_when(c) THEN "backup" ELSE "skipped")
       ELSE "backup"

(***************************************************************************)
(* The state: the provider's instances, images and snapshots, the clock,   *)
(* and the position of the run inside lambda_handler                       *)
(***************************************************************************)

VARIABLES
    clock,      \* [day, sec]: what date.today() and datetime.now() return
    instances,  \* instance id -> [region, tag]: the value under custom_tag
    images,     \* image id (1..Len) -> the provider's record of the image
    snapshots,  \* the snapshot ids that exist
    pc,         \* "idle", "create", "remove", "copy", "done", "halted", "fatal"
    region,     \* index in aws_regions of the region being processed
    queue,      \* the items the running loop has still to visit
    runs,       \* invocations of lambda_handler so far
    faults,     \* provider calls that have failed so far
    last        \* what the latest loop iteration did (its log line)

vars == <<clock, instances, images, snapshots, pc, region, queue, runs, faults, last>>

\* Invocations of lambda_handler explored
MaxRuns == 2

\* Provider calls that fail, over all invocations (a refusal for MaxImages
\* is not counted)
MaxFaults == 1

\* Images the provider lets the account hold; a request beyond it fails
MaxImages == 3

\* The first invocation: 2024-01-01 (a Monday) at 10:30:00
StartDay == 738886

StartSec == 37800

\* Days between one invocation and a later one on another day
DayJumps == {31}

SecondTags == {TagNoEnable}

NoLast ==
    [op |-> "none", instance |-> <<>>, image |-> 0, result |-> "none",
     name |-> <<>>, tag |-> None, requested |-> {}, deleted |-> {}]

\* An image the job did not create, which the operator has put under the
\* job's retention by giving it the custom tag: an instance-store image (none
\* of its block device mappings has an 'Ebs' key), due for removal on the
\* first day.
ImportedImage ==
    [region |-> UsEast1, name |-> <<"i", "m", "p", "o", "r", "t", "e", "d">>,
     tag |-> DateStr(StartDay) \o <<";">> \o Str(None), state |-> "available", origin |-> "imported",
     instance |-> <<>>, source |-> 0, day |-> StartDay, sec |-> 0,
     mappings |-> << [ebs |-> FALSE, snapshot |-> 0] >>]

Init ==
    /\ clock = [day |-> StartDay, sec |-> StartSec]
    /\ \E t1 \in PolicyTags, t2 \in SecondTags :
         instances = [i \in {Instance1, Instance2} |->
                        IF i = Instance1 THEN [region |-> UsEast1, tag |-> t1]
                                         ELSE [region |-> UsWest2, tag |-> t2]]
    /\ images \in {<<>>, <<ImportedImage>>}
    /\ snapshots = {}
    /\ pc = "idle"
    /\ region = 0
    /\ queue = <<>>
    /\ runs = 0
    /\ faults = 0
    /\ last = NoLast

\* ec2.instances.filter(tag-key = custom_tag) in one region
list_instances(r) ==
    LET InRegion(i) == instances[i].region = r
    IN SelectSeq(<<Instance1, Instance2>>, InRegion)

\* ec2.images.filter(tag-key = custom_tag, state = available) in one region
list_images(r) ==
    LET Listed(i) == images[i].region = r /\ images[i].tag # None /\ images[i].state = "available"
    IN SelectSeq([i \in 1..Len(images) |-> i], Listed)

\* The provider refuses a name an image of the region already uses
NameInUse(r, name) ==
    \E i \in DOMAIN images :
        images[i].region = r /\ images[i].state # "deregistered" /\ images[i].name = name

\* The times a later invocation can see: later the same day, or at the
\* scheduled time of a later day
RunTimes ==
    IF runs = 0 THEN {clock}
    ELSE {[day |-> clock.day, sec |-> clock.sec + 1]}
         \cup {[day |-> clock.day + j, sec |-> StartSec] : j \in DayJumps}

\* Non-empty while the provider may still fail a call
MayFail == IF faults < MaxFaults THEN {"fails"} ELSE {}

\* lambda_handler up to the first loop: AMIBackup() resolves the regions
\* (describe_regions may raise: nothing catches it) and create_images starts
\* on the first region.
StartRun ==
    /\ pc \in {"idle", "done", "halted", "fatal"}
    /\ runs < MaxRuns
    /\ runs' = runs + 1
    /\ \E t \in RunTimes : clock' = t
    /\ last' = NoLast
    /\ \E ok \in {TRUE} \cup {FALSE : x \in MayFail} :
         IF ok THEN /\ pc' = "create"
                    /\ region' = 1
                    /\ queue' = list_instances(aws_regions[1])
                    /\ faults' = faults
               ELSE /\ pc' = "fatal"
                    /\ region' = 0
                    /\ queue' = <<>>
                    /\ faults' = faults + 1
    /\ UNCHANGED <<instances, images, snapshots>>

\* The block device mappings the provider gives image k: a snapshot of the
\* root volume, an instance-store volume (no 'Ebs' key) and a snapshot of a
\* data volume. Image k owns the snapshot ids 2k - 1 and 2k.
BlockDeviceMappings(k) ==
    << [ebs |-> TRUE, snapshot |-> 2 * k - 1], [ebs |-> FALSE, snapshot |-> 0],
       [ebs |-> TRUE, snapshot |-> 2 * k] >>

\* snapshots = [m['Ebs']['SnapshotId'] for m in image.block_device_mappings if 'Ebs' in m]
ebs_snapshots(img) ==
    LET HasEbs(m) == m.ebs
        ebs == SelectSeq(img.mappings, HasEbs)
    IN [k \in DOMAIN ebs |-> ebs[k].snapshot]

NewImage(r, name, origin, instance_id, source) ==
    [region |-> r, name |-> name, tag |-> None, state |-> "pending", origin |-> origin,
     instance |-> instance_id, source |-> source, day |-> clock.day, sec |-> clock.sec,
     mappings |-> BlockDeviceMappings(Len(images) + 1)]

\* What the provider can answer to the calls after a decision to back up:
\* create_image fails, or succeeds and then a create_tags call fails or not.
CreateOutcomes(copy_tags) ==
    IF Len(images) >= MaxImages THEN {"error"}
    ELSE {"created"}
         \cup {o \in {"error", "tag_expiry_failed"} : MayFail # {}}
         \cup {o \in {"tag_copy_failed"} : MayFail # {} /\ copy_tags}

\* One iteration of the instance loop of create_images
CreateStep ==
    /\ pc = "create"
    /\ queue # <<>>
    /\ LET id       == Head(queue)
           value    == instances[id].tag
           c        == config(value)
           decision == Evaluate(value, clock.day)
           name     == image_name(id, name_qualifier(backup_type(c), clock.day, clock.sec))
           expire   == expire_date(clock.day, backup_retention(c))
           new      == NewImage(aws_regions[region], name, "create", id, 0)
           Log(result, tag) ==
               [op |-> "create", instance |-> id, image |-> 0, result |-> result,
                name |-> IF decision = "backup" THEN name ELSE <<>>, tag |-> tag,
                requested |-> {}, deleted |-> {}]
       IN IF decision # "backup"
          THEN /\ last' = Log(decision, None)
               /\ pc' = IF decision = "raised" THEN "halted" ELSE "create"
               /\ UNCHANGED <<images, snapshots, faults>>
          ELSE IF NameInUse(aws_regions[region], name)
          THEN /\ last' = Log("duplicate", None)
               /\ pc' = "create"
               /\ UNCHANGED <<images, snapshots, faults>>
          ELSE \E outcome \in CreateOutcomes(backup_copy_tags(c)) :
                 /\ last' = [Log(outcome, IF outcome = "created" THEN expiry_tag(expire, backup_copy_to(c)) ELSE None)
                               EXCEPT !.image = IF outcome = "error" THEN 0 ELSE Len(images) + 1]
                 /\ pc' = IF outcome \in {"tag_copy_failed", "tag_expiry_failed"} THEN "halted" ELSE "create"
                 /\ faults' = IF outcome = "created" \/ Len(images) >= MaxImages THEN faults ELSE faults + 1
                 /\ IF outcome = "error"
                    THEN UNCHANGED <<images, snapshots>>
                    ELSE /\ snapshots' = snapshots \cup Range(ebs_snapshots(new))
                         /\ images' = Append(images,
                              [new EXCEPT !.tag =
                                 CASE outcome = "created" -> expiry_tag(expire, backup_copy_to(c))
                                   [] outcome = "tag_expiry_failed" /\ backup_copy_tags(c) -> value
                                   [] OTHER -> None])
    /\ queue' = Tail(queue)
    /\ UNCHANGED <<clock, instances, region, runs>>

\* create_images returns; remove_images lists the images of the region
BeginRemove ==
    /\ pc = "create"
    /\ queue = <<>>
    /\ pc' = "remove"
    /\ queue' = list_images(aws_regions[region])
    /\ UNCHANGED <<clock, instances, images, snapshots, region, runs, faults, last>>

\* The region of a snapshot: that of the image it was taken for
SnapshotRegion(s) == images[(s + 1) \div 2].region

\* ec2.snapshots.filter(SnapshotIds=ids) in region r. The SDK sends a list
\* parameter element by element, so an empty list sends no SnapshotId at all
\* and the provider describes every snapshot of the region.
filter_snapshots(r, ids) ==
    IF ids = <<>> THEN {s \in snapshots : SnapshotRegion(s) = r} ELSE Range(ids)

\* The provider refuses to delete a snapshot that an image still registered
\* uses: imgs is the image table after the deregistration
InUse(imgs, s) ==
    \E i \in DOMAIN imgs : imgs[i].state # "deregistered" /\ s \in Range(ebs_snapshots(imgs[i]))

\* image.deregister() succeeded: snapshot.delete() is called on each snapshot
\* the listing returns, and each call succeeds or fails on its own. entry is
\* the log record of the iteration.
DeregisterEffects(id, entry) ==
    LET after     == [images EXCEPT ![id].state = "deregistered"]
        listed    == filter_snapshots(images[id].region, ebs_snapshots(images[id]))
        deletable == {s \in listed : ~InUse(after, s)}
    IN /\ images' = after
       /\ \E deleted \in SUBSET deletable :
            /\ faults + Cardinality(deletable \ deleted) <= MaxFaults
            /\ faults' = faults + Cardinality(deletable \ deleted)
            /\ snapshots' = snapshots \ deleted
            /\ last' = [entry EXCEPT !.requested = listed, !.deleted = deleted]

\* A slip: an image is kept through the day it expires
is_expired_strict(expire, today) == Strptime(expire) < today

\* tag['Value'].split(';')[0] <= today, both at midnight
is_expired(expire, today) == Strptime(expire) <= today

\* One iteration of the image loop of remove_images
RemoveStep ==
    /\ pc = "remove"
    /\ queue # <<>>
    /\ LET id     == Head(queue)
           expire == Split(images[id].tag, ";")[1]
           Log(result) ==
               [op |-> "remove", instance |-> <<>>, image |-> id, result |-> result,
                name |-> <<>>, tag |-> images[id].tag, requested |-> {}, deleted |-> {}]
       IN IF Strptime(expire) = ValueError
          THEN /\ last' = Log("raised")
               /\ pc' = "halted"
               /\ UNCHANGED <<images, snapshots, faults>>
          ELSE IF is_expired(expire, clock.day)
          THEN /\ pc' = "remove"
               /\ \/ DeregisterEffects(id, Log("deregistered"))
                  \/ /\ MayFail # {}
                     /\ last' = Log("deregister_failed")
                     /\ faults' = faults + 1
                     /\ UNCHANGED <<images, snapshots>>
          ELSE /\ last' = Log("kept")
               /\ pc' = "remove"
               /\ UNCHANGED <<images, snapshots, faults>>
    /\ queue' = Tail(queue)
    /\ UNCHANGED <<clock, instances, region, runs>>

\* remove_images returns; copy_images lists the images of the region
BeginCopy ==
    /\ pc = "remove"
    /\ queue = <<>>
    /\ pc' = "copy"
    /\ queue' = list_images(aws_regions[region])
    /\ UNCHANGED <<clock, instances, images, snapshots, region, runs, faults, last>>

\* expire_date + ';None'
new_tag(expire) == expire \o <<";">> \o Str(None)

\* How far the try block of one copy target gets before a call raises
CopyOutcomes == {"copy_failed", "tag_copy_failed", "new_tag_copy_failed", "new_tag_source_failed", "copied"}

\* The loop over the copy targets of one image: imgs is the image table so
\* far, stale the tags the listing returned for the source image.
RECURSIVE CopyLoop(_, _, _, _, _, _, _)
CopyLoop(imgs, id, stale, expire, targets, outs, k) ==
    IF k > Len(targets) THEN imgs
    ELSE LET target == targets[k]
             out    == IF Len(imgs) >= MaxImages THEN "copy_failed" ELSE outs[k]
             copy   == [region |-> target, name |-> imgs[id].name, tag |-> None, state |-> "pending",
                        origin |-> "copy", instance |-> imgs[id].instance, source |-> id,
                        day |-> clock.day, sec |-> clock.sec,
                        mappings |-> BlockDeviceMappings(Len(imgs) + 1)]
             copytag == CASE out = "tag_copy_failed" -> None
                          [] out = "new_tag_copy_failed" -> stale
                          [] OTHER -> new_tag(expire)
             after  == IF target \notin Range(aws_regions) \/ out = "copy_failed" THEN imgs
                       ELSE LET added == Append(imgs, [copy EXCEPT !.tag = copytag])
                            IN IF out = "copied" THEN [added EXCEPT ![id].tag = new_tag(expire)] ELSE added
         IN CopyLoop(after, id, stale, expire, targets, outs, k + 1)

\* One iteration of the image loop of copy_images
CopyStep ==
    /\ pc = "copy"
    /\ queue # <<>>
    /\ LET id    == Head(queue)
           parts == Split(images[id].tag, ";")
           Log(result) ==
               [op |-> "copy", instance |-> <<>>, image |-> id, result |-> result,
                name |-> <<>>, tag |-> images[id].tag, requested |-> {}, deleted |-> {}]
       IN IF Len(parts) # 2
          THEN /\ last' = Log("raised")
               /\ pc' = "halted"
               /\ UNCHANGED <<images, snapshots, faults>>
          ELSE LET raw     == Split(parts[2], ",")
                   targets == [k \in DOMAIN raw |-> Strip(raw[k])]
               IN \E outs \in [DOMAIN targets -> CopyOutcomes] :
                    /\ \A k \in DOMAIN targets : targets[k] \notin Range(aws_regions) => outs[k] = "copied"
                    /\ faults + Cardinality({k \in DOMAIN targets : outs[k] # "copied"}) <= MaxFaults
                    /\ faults' = faults + Cardinality({k \in DOMAIN targets : outs[k] # "copied"})
                    /\ images' = CopyLoop(images, id, images[id].tag, parts[1], targets, outs, 1)
                    /\ snapshots' = snapshots \cup UNION {Range(ebs_snapshots(images'[i])) :
                                                             i \in Len(images) + 1 .. Len(images')}
                    /\ last' = Log(IF Len(images') > Len(images) THEN "copied" ELSE "nothing")
                    /\ pc' = "copy"
    /\ queue' = Tail(queue)
    /\ UNCHANGED <<clock, instances, region, runs>>

\* copy_images returns; lambda_handler moves to the next region or returns
NextRegion ==
    /\ pc = "copy"
    /\ queue = <<>>
    /\ IF region < Len(aws_regions)
       THEN /\ region' = region + 1
            /\ pc' = "create"
            /\ queue' = list_instances(aws_regions[region + 1])
       ELSE /\ region' = region
            /\ pc' = "done"
            /\ queue' = <<>>
    /\ UNCHANGED <<clock, instances, images, snapshots, runs, faults, last>>

\* The provider finishes building the images it was asked for: pending
\* becomes available (the pending images complete together)
ImageAvailable ==
    /\ \E id \in DOMAIN images : images[id].state = "pending"
    /\ images' = [id \in DOMAIN images |->
                    IF images[id].state = "pending" THEN [images[id] EXCEPT !.state = "available"]
                    ELSE images[id]]
    /\ UNCHANGED <<clock, instances, snapshots, pc, region, queue, runs, faults, last>>

Next ==
    \/ StartRun
    \/ CreateStep
    \/ BeginRemove
    \/ RemoveStep
    \/ BeginCopy
    \/ CopyStep
    \/ NextRegion
    \/ ImageAvailable

Spec == Init /\ [][Next]_vars

(***************************************************************************)
(* The policy as the specification reads a tag, written without the        *)
(* program's decoder: the segments between ';', each "key=value"           *)
(***************************************************************************)

ClaimSegments(t) == Split(t, ";")

ClaimEquals(seg) == {i \in DOMAIN seg : seg[i] = "="}

ClaimMalformed(t) == \E i \in DOMAIN ClaimSegments(t) : Cardinality(ClaimEquals(ClaimSegments(t)[i])) # 1

ClaimKey(seg) == LET eq == CHOOSE i \in ClaimEquals(seg) : TRUE IN Strip(Lower(SubSeq(seg, 1, eq - 1)))

ClaimVal(seg) == LET eq == CHOOSE i \in ClaimEquals(seg) : TRUE IN Strip(Lower(SubSeq(seg, eq + 1, Len(seg))))

\* The value a well-formed tag gives a key (its last occurrence), or None
ClaimValue(t, k) ==
    LET segs == ClaimSegments(t)
        at   == {i \in DOMAIN segs : ClaimKey(segs[i]) = k}
    IN IF at = {} THEN None ELSE ClaimVal(segs[CHOOSE i \in at : \A j \in at : j <= i])

AllTags == PolicyTags \cup SecondTags

\* enable=false: malformed, no enable key, or a value other than yes/true
ClaimDisabledTags == {t \in AllTags : ClaimMalformed(t) \/ ClaimValue(t, S_enable) \notin {S_yes, S_true}}

ClaimMalformedTags == {t \in AllTags : ClaimMalformed(t)}

ClaimTagsOfType(types) == {t \in AllTags \ ClaimDisabledTags : ClaimValue(t, S_type) \in types}

ClaimWeeklyTags == ClaimTagsOfType({S_weekly})

ClaimMonthlyTags == ClaimTagsOfType({S_monthly})

ClaimAlwaysTags == ClaimTagsOfType({S_always})

\* daily, or no recognised type
ClaimDailyTags == (AllTags \ ClaimDisabledTags) \ ClaimTagsOfType({S_always, S_weekly, S_monthly})

\* The entries of `when`, none when the key is absent
ClaimWhenEntries(t) ==
    IF ClaimValue(t, S_when) = None THEN {}
    ELSE {Strip(e) : e \in Range(Split(ClaimValue(t, S_when), ","))}

\* `when` as a set of three-letter weekday abbreviations
ClaimWeekdays == [t \in ClaimWeeklyTags |-> {Prefix(e, 3) : e \in ClaimWhenEntries(t)}]

\* `when` as a set of days of the month: the decimal entries within 1..31
ClaimMonthDays ==
    [t \in ClaimMonthlyTags |->
        {d \in 1..31 : \E e \in ClaimWhenEntries(t) : AllAsciiDigits(e) /\ DecimalValue(e) = d}]

\* retention: the tag's when it is a non-negative integer, else the default
ClaimRetention ==
    [t \in AllTags \ ClaimDisabledTags |->
        LET v == ClaimValue(t, S_retention)
        IN IF v # None /\ AllAsciiDigits(v) THEN DecimalValue(v) ELSE default_retention_days]

\* copy targets: the copyto value, "None" without one
ClaimCopyTargets ==
    [t \in AllTags \ ClaimDisabledTags |->
        IF ClaimValue(t, S_copyto) = None THEN <<"N", "o", "n", "e">> ELSE ClaimValue(t, S_copyto)]

\* The iteration asked the provider to create an image
Requested(l) == l.result \in {"duplicate", "error", "created", "tag_copy_failed", "tag_expiry_failed"}

LastTag == instances[last.instance].tag

(***************************************************************************)
(* Claims                                                                  *)
(***************************************************************************)

\* C1: per-item isolation. No condition met while processing one instance
\* or image halts the run: only a startup failure ("fatal") ends a run
\* before lambda_handler has gone through every step of every region.
C1_PerItemIsolation == pc # "halted"

\* C2: when remove_images evaluates an image, it requests its deregistration
\* if and only if the expiry date stored in the tag is on or before today.
C2_ExpiredIffOnOrBeforeToday ==
    (last.op = "remove" /\ last.result # "raised") =>
        (last.result \in {"deregistered", "deregister_failed"}
            <=> Strptime(Split(last.tag, ";")[1]) <= clock.day)

\* C2 witness: an image whose expiry date is today was deregistered today
C2_Witness ==
    /\ last.op = "remove"
    /\ last.result = "deregistered"
    /\ Split(last.tag, ";")[1] = DateStr(clock.day)

\* C3: for an instance whose policy is disabled (no enable key, a value other
\* than yes/true, or a malformed tag) create_images requests no image, and a
\* malformed tag is reported as a parse error.
C3_DisabledNeverBacksUp ==
    /\ (last.op = "create" /\ LastTag \in ClaimDisabledTags) => ~Requested(last)
    /\ (last.op = "create" /\ LastTag \in ClaimMalformedTags) => last.result = "parse_error"
    /\ \A i \in DOMAIN images :
         images[i].origin = "create" => instances[images[i].instance].tag \notin ClaimDisabledTags

\* C4: for an enabled weekly policy the iteration either requests an image
\* or skips the instance, and requests one if and only if today's weekday
\* abbreviation is in `when` (never, with `when` empty or absent).
C4_WeeklySchedule ==
    (last.op = "create" /\ LastTag \in ClaimWeeklyTags) =>
        /\ last.result # "raised"
        /\ Requested(last) <=> today_weekday(clock.day) \in ClaimWeekdays[LastTag]

\* C5: for an enabled monthly policy the iteration requests an image if and
\* only if today's day of the month is an integer entry of `when` within
\* 1..31; the other entries neither cause nor prevent a backup.
C5_MonthlySchedule ==
    (last.op = "create" /\ LastTag \in ClaimMonthlyTags) =>
        (Requested(last) <=> OrdDay(clock.day) \in ClaimMonthDays[LastTag])

\* C6: for an instance with an enabled daily (or untyped) policy, the runs
\* of one calendar day create at most one image of the instance.
C6_OneImagePerDay ==
    \A i, j \in DOMAIN images :
        (/\ i < j
         /\ images[i].origin = "create" /\ images[j].origin = "create"
         /\ images[i].instance = images[j].instance
         /\ instances[images[i].instance].tag \in ClaimDailyTags)
        => images[i].day # images[j].day

\* The ExpiryTag shape: "<ISO-date>;<copy-target-list-or-None>"
IsExpiryTag(v) ==
    /\ v # None
    /\ Len(Split(v, ";")) = 2
    /\ Strptime(Split(v, ";")[1]) # ValueError
    /\ Split(v, ";")[2] # <<>>

\* C7: every image created by the job, directly or as a copy, carries one
\* value of the ExpiryTag shape under the custom tag key.
C7_ExpiryTagInvariant ==
    \A i \in DOMAIN images : images[i].origin \in {"create", "copy"} => IsExpiryTag(images[i].tag)

\* C8: the tag written on an image created on day d, for retention r and
\* copy targets c, is "<d + r days as YYYY-MM-DD>;<c>".
C8_ExpiryTagValue ==
    (last.op = "create" /\ last.result = "created") =>
        /\ last.tag = DateStr(clock.day + ClaimRetention[LastTag]) \o <<";">> \o ClaimCopyTargets[LastTag]
        /\ images[last.image].tag = last.tag

\* C8 witness: an image was created for the policy
\* "enable=yes;type=daily;retention=7;copyto=us-west-2"
C8_Witness ==
    /\ last.op = "create"
    /\ last.result = "created"
    /\ LastTag = TagExample

\* C9: for type=always an image is requested on every run and two requests
\* for one instance at different timestamps carry different names; for any
\* other type the name embeds the calendar date only.
C9_AlwaysNameUnique ==
    /\ (last.op = "create" /\ LastTag \in ClaimAlwaysTags) =>
         /\ Requested(last)
         /\ \A i \in DOMAIN images :
              (/\ images[i].origin = "create"
               /\ images[i].instance = last.instance
               /\ <<images[i].day, images[i].sec>> # <<clock.day, clock.sec>>)
              => images[i].name # last.name
    /\ (last.op = "create" /\ Requested(last) /\ LastTag \notin ClaimAlwaysTags) =>
         last.name = last.instance \o <<" ", "-", " ">> \o DateStr(clock.day)

\* C10: over any sequence of runs an image is copied to a given target
\* region at most once.
C10_CopiedAtMostOnce ==
    \A i, j \in DOMAIN images :
        (/\ i < j
         /\ images[i].origin = "copy" /\ images[j].origin = "copy"
         /\ images[i].source = images[j].source)
        => images[i].region # images[j].region

\* The snapshots the Ebs block device mappings of an image refer to
ClaimEbsSnapshots(img) ==
    {img.mappings[k].snapshot : k \in {j \in DOMAIN img.mappings : img.mappings[j].ebs}}

\* C11: remove_images requests the deletion of a snapshot only if an Ebs
\* mapping of the image it is evaluating refers to it, the image is expired
\* and its deregistration has just succeeded; after a successful
\* deregistration every snapshot of the image is attempted, whatever the
\* other attempts gave; after a failed one, none; and no snapshot of an
\* image still registered is ever deleted.
C11_SnapshotDeletionConfined ==
    /\ last.op = "remove" =>
         /\ last.requested \subseteq ClaimEbsSnapshots(images[last.image])
         /\ last.deleted \subseteq last.requested
         /\ last.requested # {} =>
              /\ last.result = "deregistered"
              /\ Strptime(Split(last.tag, ";")[1]) <= clock.day
         /\ last.result = "deregistered" =>
              last.requested = ClaimEbsSnapshots(images[last.image])
    /\ \A i \in DOMAIN images :
         images[i].state # "deregistered" => ClaimEbsSnapshots(images[i]) \subseteq snapshots

=============================================================================
